---------------------------- MODULE Spec2Model ----------------------------
(***************************************************************************)
(* gcal-syncer, full-reconciliation variant (sync.go).                     *)
(*                                                                         *)
(* Syncer.Sync lists the source calendars into the map `updates`, removes  *)
(* the identities found in the exclusion calendars, lists the target       *)
(* calendar to classify every target event (delete / no-op / update), and  *)
(* then issues Events.Import and Events.Delete calls from goroutines that  *)
(* are bounded by a weighted semaphore.                                    *)
(*                                                                         *)
(* The remote calendar service is the environment: `calendars` is its      *)
(* state, a listing returns a calendar's events in order, and every remote *)
(* call may fail.                                                          *)
(*                                                                         *)
(* The main function of the incremental variant (main.go) is modelled by   *)
(* a specification of its own, MainSpec: it loads config.json and          *)
(* status.json, syncs one scope after the other and writes status.json.    *)
(***************************************************************************)
EXTENDS Integers, Sequences, FiniteSets, TLC

VARIABLES
    Config,             \* Syncer.Config
    UpdateConcurrency,  \* Syncer.UpdateConcurrency
    calendars,          \* remote service: calendar id -> listing (Seq of events)
    cancelled,          \* ctx.Done() is closed
    pc,                 \* position of the goroutine running Sync
    idx,                \* index of the next calendar of the running listing loop
    updates,            \* map[string]*calendar.Event
    deletes,            \* []string of target event ids
    todo,               \* keys of `updates` the range loop has not visited yet
    di,                 \* index of the next element of `deletes` to dispatch
    sem,                \* semaphore.Weighted: tokens currently held (cur)
    workers,            \* started goroutines: [op, key] -> position
    mu,                 \* sync.Mutex: TRUE when held
    errs,               \* []error shared by the goroutines
    result,             \* value returned by Sync (NoResult while running)
    run,                \* number of the current invocation of Sync
    desired,            \* history: `updates` as handed to the diff
    listing,            \* history: the target listing the diff has read
    noops,              \* history: identities the diff classified as no-op
    listed,             \* history: calendars listed so far by this run
    calls,              \* history: Import/Delete calls started by this run
    finished,           \* history: goroutines of this run that returned
    failed,             \* history: operations of this run whose call failed
    edit                \* history: the edit made to a source between two runs

\* main.go (incremental variant)
VARIABLES
    mpc,                \* position of main
    configFile,         \* config.json on disk
    statusFile,         \* status.json on disk
    config,             \* []SyncConfig returned by LoadConfig
    status,             \* map[string]SyncStatus held by main
    ci,                 \* index of the next element of config to sync
    starts,             \* number of the current start of the process
    syncs,              \* history: the calls of Sync made since the start
    fileAtStart,        \* history: status.json as it was at the start
    ioerr               \* history: the I/O errors met since the start

syncVars == <<Config, UpdateConcurrency, calendars, cancelled, pc, idx, updates,
              deletes, todo, di, sem, workers, mu, errs, result, run, desired,
              listing, noops, listed, calls, finished, failed, edit>>

mainVars == <<mpc, configFile, statusFile, config, status, ci, starts, syncs,
              fileAtStart, ioerr>>

vars == <<syncVars, mainVars>>

----------------------------------------------------------------------------
(* Bounds of the model. *)

\* largest concurrency limit tried
MaxConc == 2

\* number of invocations of Sync in one behaviour
MaxRuns == 2

\* number of starts of the process of main.go in one behaviour
MaxStarts == 2

----------------------------------------------------------------------------
(* Values. *)

\* A nil *calendar.Event.
Nil == [nil |-> TRUE]

\* The zero value of a map / an empty listing.
EmptyMap == [k \in {} |-> Nil]

Put(m, k, v) == [x \in (DOMAIN m) \cup {k} |-> IF x = k THEN v ELSE m[x]]

Remove(m, k) == [x \in (DOMAIN m) \ {k} |-> m[x]]

Lookup(m, k) == IF k \in DOMAIN m THEN m[k] ELSE Nil

Range(s) == {s[i] : i \in DOMAIN s}

\* calendar.EventDateTime: an all-day date or a timed instant.
DateTime(d, t) == [Date |-> d, DateTime |-> t]

\* The fields of calendar.Event that the program reads or writes.
Event(id, uid, eventStatus, transparency, summary, description, location, start, end) ==
    [Id |-> id, ICalUID |-> uid, Status |-> eventStatus, Transparency |-> transparency,
     Summary |-> summary, Description |-> description, Location |-> location,
     Start |-> start, End |-> end]

----------------------------------------------------------------------------
(* Pure functions of sync.go. *)

\* Mutant: under busy-only an event of unset transparency counts as free.
shouldSync_UnsetIsFree(e) ==
    (~Config.BusyOnly \/ e.Transparency = "opaque") /\ e.Status /= "cancelled"

\* Mutant: the status of the event is not looked at.
shouldSync_AnyStatus(e) ==
    ~Config.BusyOnly \/ e.Transparency = "opaque" \/ e.Transparency = ""

shouldSync(e) ==
    (~Config.BusyOnly \/ e.Transparency = "opaque" \/ e.Transparency = "")
        /\ e.Status /= "cancelled"

\* Mutant: the transparency is used as listed, without the default.
icalUID_AsListed(e) == e.Id \o "-" \o e.Transparency \o "@" \o Config.ID

icalUID(e) ==
    LET transparency == IF e.Transparency = "" THEN "opaque" ELSE e.Transparency
    IN  e.Id \o "-" \o transparency \o "@" \o Config.ID

\* Mutant: a later occurrence replaces the event instead of being layered.
buildEvent_Rebuild(base, original, prefix) ==
    LET e == Event("", icalUID(original), "", original.Transparency,
                   "", "", "", original.Start, original.End)
        m == IF Config.Mask = ""
             THEN [e EXCEPT !.Summary = original.Summary,
                            !.Description = original.Description,
                            !.Location = original.Location]
             ELSE [e EXCEPT !.Summary = Config.Mask]
    IN  [m EXCEPT !.Summary = prefix \o (IF base /= Nil THEN base.Summary ELSE m.Summary)]

\* Mutant: the mask replaces the title but the details are kept.
buildEvent_MaskTitleOnly(base, original, prefix) ==
    IF base /= Nil
    THEN [base EXCEPT !.Summary = prefix \o base.Summary]
    ELSE LET e == Event("", icalUID(original), "", original.Transparency,
                        "", original.Description, original.Location,
                        original.Start, original.End)
             m == IF Config.Mask = ""
                  THEN [e EXCEPT !.Summary = original.Summary]
                  ELSE [e EXCEPT !.Summary = Config.Mask]
         IN  [m EXCEPT !.Summary = prefix \o m.Summary]

\* Mutant: the new event keeps the iCalUID of the source event.
buildEvent_SourceUID(base, original, prefix) ==
    IF base /= Nil
    THEN [base EXCEPT !.Summary = prefix \o base.Summary]
    ELSE LET e == Event("", original.ICalUID, "", original.Transparency,
                        "", "", "", original.Start, original.End)
             m == IF Config.Mask = ""
                  THEN [e EXCEPT !.Summary = original.Summary,
                                 !.Description = original.Description,
                                 !.Location = original.Location]
                  ELSE [e EXCEPT !.Summary = Config.Mask]
         IN  [m EXCEPT !.Summary = prefix \o m.Summary]

buildEvent(base, original, prefix) ==
    IF base /= Nil
    THEN [base EXCEPT !.Summary = prefix \o base.Summary]
    ELSE LET e == Event("", icalUID(original), "", original.Transparency,
                        "", "", "", original.Start, original.End)
             m == IF Config.Mask = ""
                  THEN [e EXCEPT !.Summary = original.Summary,
                                 !.Description = original.Description,
                                 !.Location = original.Location]
                  ELSE [e EXCEPT !.Summary = Config.Mask]
         IN  [m EXCEPT !.Summary = prefix \o m.Summary]

\* Mutant: the all-day end date is not compared.
equalEvent_NoEndDate(a, b) ==
    /\ a.Summary = b.Summary
    /\ a.Description = b.Description
    /\ a.Location = b.Location
    /\ a.Start.Date = b.Start.Date /\ a.Start.DateTime = b.Start.DateTime
    /\ a.End.DateTime = b.End.DateTime
    /\ a.Transparency = b.Transparency

\* Mutant: the comparison also reads the event id, which only the target has.
equalEvent_WithId(a, b) ==
    /\ a.Id = b.Id
    /\ a.Summary = b.Summary
    /\ a.Description = b.Description
    /\ a.Location = b.Location
    /\ a.Start.Date = b.Start.Date /\ a.Start.DateTime = b.Start.DateTime
    /\ a.End.Date = b.End.Date /\ a.End.DateTime = b.End.DateTime
    /\ a.Transparency = b.Transparency

equalEvent(a, b) ==
    /\ a.Summary = b.Summary
    /\ a.Description = b.Description
    /\ a.Location = b.Location
    /\ a.Start.Date = b.Start.Date /\ a.Start.DateTime = b.Start.DateTime
    /\ a.End.Date = b.End.Date /\ a.End.DateTime = b.End.DateTime
    /\ a.Transparency = b.Transparency

----------------------------------------------------------------------------
(* The callbacks Sync hands to list, applied to one listed event. *)

\* sync.go:112-119
sourceCallback(u, e, prefix) ==
    IF ~shouldSync(e) THEN u
    ELSE LET id == icalUID(e) IN Put(u, id, buildEvent(Lookup(u, id), e, prefix))

\* Mutant: the exclusion listing applies the filter of the source listing.
excludeCallback_Filtered(u, e) == IF shouldSync(e) THEN Remove(u, icalUID(e)) ELSE u

\* sync.go:128-132
excludeCallback(u, e) == Remove(u, icalUID(e))

\* Mutant: the delete list takes the identity instead of the event id.
targetCallback_DeleteByUID(d, e) ==
    LET id == e.ICalUID IN
    IF id \notin DOMAIN d.updates
    THEN [d EXCEPT !.deletes = Append(@, e.ICalUID)]
    ELSE IF equalEvent(d.updates[id], e)
         THEN [d EXCEPT !.updates = Remove(@, id), !.noops = @ \cup {id}]
         ELSE d

\* Mutant: a target event of an unknown identity is left alone.
targetCallback_NoDelete(d, e) ==
    LET id == e.ICalUID IN
    IF id \notin DOMAIN d.updates
    THEN d
    ELSE IF equalEvent(d.updates[id], e)
         THEN [d EXCEPT !.updates = Remove(@, id), !.noops = @ \cup {id}]
         ELSE d

\* Mutant: a field-equal target event does not take its identity out of
\* the map.
targetCallback_KeepEqual(d, e) ==
    LET id == e.ICalUID IN
    IF id \notin DOMAIN d.updates
    THEN [d EXCEPT !.deletes = Append(@, e.Id)]
    ELSE IF equalEvent(d.updates[id], e)
         THEN [d EXCEPT !.noops = @ \cup {id}]
         ELSE d

\* sync.go:140-149; d is the state of the diff: updates, deletes, noops
targetCallback(d, e) ==
    LET id == e.ICalUID IN
    IF id \notin DOMAIN d.updates
    THEN [d EXCEPT !.deletes = Append(@, e.Id)]
    ELSE IF equalEvent(d.updates[id], e)
         THEN [d EXCEPT !.updates = Remove(@, id), !.noops = @ \cup {id}]
         ELSE d

\* Syncer.list: the callback applied to the first n events of a listing.
RECURSIVE listSource(_, _, _, _)
listSource(u, events, n, prefix) ==
    IF n = 0 THEN u
    ELSE sourceCallback(listSource(u, events, n - 1, prefix), events[n], prefix)

RECURSIVE listExclude(_, _, _)
listExclude(u, events, n) ==
    IF n = 0 THEN u
    ELSE excludeCallback(listExclude(u, events, n - 1), events[n])

RECURSIVE listTarget(_, _, _)
listTarget(d, events, n) ==
    IF n = 0 THEN d
    ELSE targetCallback(listTarget(d, events, n - 1), events[n])

----------------------------------------------------------------------------
(* The remote calendar service. *)

\* What the service stores for an imported event: the service's own event
\* id and a confirmed status around the fields Sync sent.
Stored(e, id) == [e EXCEPT !.Id = id, !.Status = "confirmed"]

\* The event id the service gives to a newly inserted event.
NewId(e) == "n-" \o e.ICalUID

\* Positions of the events of a listing that carry e's iCalUID.
Matches(target, e) == {i \in DOMAIN target : target[i].ICalUID = e.ICalUID}

\* Events.Import: an upsert keyed by iCalUID; i is the position replaced
\* (0 when the event is inserted).
Import(target, e, i) ==
    IF i = 0 THEN Append(target, Stored(e, NewId(e)))
    ELSE [target EXCEPT ![i] = Stored(e, target[i].Id)]

\* Events.Delete by the target's own event id.
Delete(target, id) == SelectSeq(target, LAMBDA t : t.Id /= id)

----------------------------------------------------------------------------
(* Values returned by Sync. *)

\* No source has been edited.
NoEdit == [run |-> 0]

NoResult == [kind |-> "running"]

NilErr == [kind |-> "nil"]

\* ctx.Err()
CtxErr == [kind |-> "ctx"]

\* fmt.Errorf("listing calendar %q: %w", calID, err)
ListErr(calID) == [kind |-> "listing", cal |-> calID]

\* fmt.Errorf("updating event %q: %w", ...) / fmt.Errorf("deleting event %q: %w", ...)
OpErr(w) == [op |-> w.op, key |-> w.key]

\* errors.Join(errs...)
Joined(es) == [kind |-> "joined", errs |-> es]

----------------------------------------------------------------------------
(* main.go: files, configurations and watermarks. *)

\* A file that does not exist, one that does not decode, one that decodes
\* to the value v.
Missing == [kind |-> "missing"]

Corrupt == [kind |-> "corrupt"]

File(v) == [kind |-> "json", v |-> v]

\* The zero value of SyncStatus: no watermark, a full sync.
ZeroStatus == ""

\* The watermarks a Sync may return.
Marks == {"t1", "t2"}

\* status[c.ID]: the zero value when the key is absent
Get(m, k) == IF k \in DOMAIN m THEN m[k] ELSE ZeroStatus

\* The scope lists config.json may hold.
ConfigLists == {<<"a">>, <<"a", "b">>}

\* What status.json may hold before the first start.
StatusFiles ==
    {Missing, Corrupt, File([k \in {"a"} |-> "t1"]), File([k \in {"a", "b"} |-> "t1"])}

\* The variables of main.go while the other program is looked at.
MainOff ==
    /\ mpc = "off"
    /\ configFile = Missing
    /\ statusFile = Missing
    /\ config = <<>>
    /\ status = EmptyMap
    /\ ci = 1
    /\ starts = 0
    /\ syncs = <<>>
    /\ fileAtStart = Missing
    /\ ioerr = {}

----------------------------------------------------------------------------
(* Initial states: a configuration and a remote world. *)

Noon == DateTime("", "2024-01-01T12:00")

One == DateTime("", "2024-01-01T13:00")

Jan2 == DateTime("2024-01-02", "")

Jan3 == DateTime("2024-01-03", "")

Lunch(transparency, eventStatus) ==
    Event("e1", "e1@google.com", eventStatus, transparency, "Lunch", "menu", "cafe", Noon, One)

Trip(transparency, eventStatus) ==
    Event("e2", "e2@google.com", eventStatus, transparency, "Trip", "", "", Jan2, Jan3)

Foreign == Event("f1", "f1@elsewhere", "confirmed", "opaque", "Dentist", "", "", Noon, One)

SourceSpec(id, prefix) == [ID |-> id, Prefix |-> prefix]

Work == SourceSpec("s1", "[W] ")

Home == SourceSpec("s2", "[H] ")

SourceLists == {<<Work>>, <<Work, Home>>, <<Home, Work>>}

ExcludeLists == {<<"x1">>, <<"x1", "x2">>, <<"x2", "x1">>}

Masks == {"", "busy"}

Limits == 1..MaxConc

S1Listings ==
    {<<Lunch("", "confirmed"), Trip("", "cancelled")>>,
     <<Trip("", "confirmed"), Lunch("transparent", "confirmed")>>}

\* The copy of Lunch in the second source calendar: the same event id, other
\* details.
LunchAtHome ==
    [Lunch("opaque", "confirmed") EXCEPT !.Summary = "Lunch at home", !.Description = "",
                                         !.Location = "home", !.End = Jan2]

S2Listings == {<<LunchAtHome>>}

X1Listings == {<<Trip("", "confirmed")>>}

X2Listings == {<<Lunch("opaque", "cancelled")>>}

\* What an earlier run left in the target for source event e: the exact
\* copy, or a copy the target's owner has since moved.
Copy(e) == Stored(buildEvent(Nil, e, Work.Prefix), NewId(buildEvent(Nil, e, Work.Prefix)))

Moved(e) == [Copy(e) EXCEPT !.Id = "o-" \o @, !.Location = "moved"]

\* Events the target may hold before the first run, one of them an event
\* nobody synced.
TargetPool(e) == {Foreign, Copy(e), Moved(e)}

\* The listings of at most two distinct events of the pool.
TargetListings(e) ==
    {<<>>} \cup {<<a>> : a \in TargetPool(e)}
           \cup {<<p[1], p[2]>> : p \in {q \in TargetPool(e) \X TargetPool(e) : q[1] /= q[2]}}

\* The state at the call of Sync, but for the limit.
Start ==
    /\ Config \in [ID : {"cfg"},
                   SourceCalendars : SourceLists,
                   TargetCalendarID : {"tgt"},
                   ExcludeCalendarIDs : ExcludeLists,
                   BusyOnly : BOOLEAN,
                   Mask : Masks]
    /\ \E l1 \in S1Listings, l2 \in S2Listings, k1 \in X1Listings, k2 \in X2Listings :
         \E t \in TargetListings(l1[1]) :
            calendars = [c \in {"s1", "s2", "x1", "x2", "tgt"} |->
                            CASE c = "s1" -> l1 [] c = "s2" -> l2 [] c = "x1" -> k1
                              [] c = "x2" -> k2 [] OTHER -> t]
    /\ cancelled = FALSE
    /\ pc = "sources"
    /\ idx = 1
    /\ updates = EmptyMap
    /\ deletes = <<>>
    /\ todo = {}
    /\ di = 1
    /\ sem = 0
    /\ workers = EmptyMap
    /\ mu = FALSE
    /\ errs = <<>>
    /\ result = NoResult
    /\ run = 1
    /\ desired = EmptyMap
    /\ listing = <<>>
    /\ noops = {}
    /\ listed = <<>>
    /\ calls = {}
    /\ finished = {}
    /\ failed = {}
    /\ edit = NoEdit
    /\ MainOff

Init == UpdateConcurrency \in Limits /\ Start

----------------------------------------------------------------------------
(* Sync, sequential part: sync.go:108-154. *)

\* The statement Sync reaches after its listing loops: the Acquire of the
\* first loop that still has an element, or the final Acquire.
ApplyPc(t, d, ds) ==
    IF t /= {} THEN "updates" ELSE IF d <= Len(ds) THEN "deletes" ELSE "wait"

SourceCal == Config.SourceCalendars[idx]

\* sync.go:109-123, one source calendar listed to its end
ListSource ==
    /\ pc = "sources"
    /\ ~cancelled
    /\ updates' = listSource(updates, calendars[SourceCal.ID],
                             Len(calendars[SourceCal.ID]), SourceCal.Prefix)
    /\ listed' = Append(listed, SourceCal.ID)
    /\ IF idx < Len(Config.SourceCalendars)
       THEN idx' = idx + 1 /\ pc' = pc
       ELSE idx' = 1 /\ pc' = IF Config.ExcludeCalendarIDs = <<>> THEN "target" ELSE "excludes"
    /\ UNCHANGED <<mainVars, Config, UpdateConcurrency, calendars, cancelled, deletes, todo,
                   di, sem, workers, mu, errs, result, run, desired, listing,
                   noops, calls, finished, failed, edit>>

\* sync.go:120-122, the listing fails after n events
ListSourceFail ==
    /\ pc = "sources"
    /\ \E n \in 0..Len(calendars[SourceCal.ID]) :
         updates' = listSource(updates, calendars[SourceCal.ID], n, SourceCal.Prefix)
    /\ listed' = Append(listed, SourceCal.ID)
    /\ result' = ListErr(SourceCal.ID)
    /\ pc' = "done"
    /\ UNCHANGED <<mainVars, Config, UpdateConcurrency, calendars, cancelled, idx, deletes,
                   todo, di, sem, workers, mu, errs, run, desired, listing, noops,
                   calls, finished, failed, edit>>

ExcludeCal == Config.ExcludeCalendarIDs[idx]

\* sync.go:125-136, one exclusion calendar listed to its end
ListExclude ==
    /\ pc = "excludes"
    /\ ~cancelled
    /\ updates' = listExclude(updates, calendars[ExcludeCal], Len(calendars[ExcludeCal]))
    /\ listed' = Append(listed, ExcludeCal)
    /\ IF idx < Len(Config.ExcludeCalendarIDs)
       THEN idx' = idx + 1 /\ pc' = pc
       ELSE idx' = 1 /\ pc' = "target"
    /\ UNCHANGED <<mainVars, Config, UpdateConcurrency, calendars, cancelled, deletes, todo,
                   di, sem, workers, mu, errs, result, run, desired, listing,
                   noops, calls, finished, failed, edit>>

\* sync.go:133-135
ListExcludeFail ==
    /\ pc = "excludes"
    /\ \E n \in 0..Len(calendars[ExcludeCal]) :
         updates' = listExclude(updates, calendars[ExcludeCal], n)
    /\ listed' = Append(listed, ExcludeCal)
    /\ result' = ListErr(ExcludeCal)
    /\ pc' = "done"
    /\ UNCHANGED <<mainVars, Config, UpdateConcurrency, calendars, cancelled, idx, deletes,
                   todo, di, sem, workers, mu, errs, run, desired, listing, noops,
                   calls, finished, failed, edit>>

Diff(n) ==
    listTarget([updates |-> updates, deletes |-> <<>>, noops |-> {}],
               calendars[Config.TargetCalendarID], n)

\* sync.go:138-154, the target calendar listed to its end
ListTarget ==
    /\ pc = "target"
    /\ ~cancelled
    /\ LET d == Diff(Len(calendars[Config.TargetCalendarID])) IN
         /\ updates' = d.updates
         /\ deletes' = d.deletes
         /\ noops' = d.noops
         /\ todo' = DOMAIN d.updates
         /\ di' = 1
         /\ pc' = ApplyPc(DOMAIN d.updates, 1, d.deletes)
    /\ desired' = updates
    /\ listing' = calendars[Config.TargetCalendarID]
    /\ listed' = Append(listed, Config.TargetCalendarID)
    /\ UNCHANGED <<mainVars, Config, UpdateConcurrency, calendars, cancelled, idx, sem,
                   workers, mu, errs, result, run, calls, finished, failed, edit>>

\* Mutant: the error of the target listing is kept but Sync goes on.
ListTargetFail_GoesOn ==
    /\ pc = "target"
    /\ \E n \in 0..Len(calendars[Config.TargetCalendarID]) :
         LET d == Diff(n) IN
           /\ updates' = d.updates
           /\ deletes' = d.deletes
           /\ noops' = d.noops
           /\ todo' = DOMAIN d.updates
           /\ pc' = ApplyPc(DOMAIN d.updates, 1, d.deletes)
    /\ desired' = updates
    /\ listed' = Append(listed, Config.TargetCalendarID)
    /\ result' = ListErr(Config.TargetCalendarID)
    /\ UNCHANGED <<mainVars, Config, UpdateConcurrency, calendars, cancelled, idx, di,
                   sem, workers, mu, errs, run, listing, calls, finished, failed, edit>>

\* sync.go:150-152
ListTargetFail ==
    /\ pc = "target"
    /\ \E n \in 0..Len(calendars[Config.TargetCalendarID]) :
         LET d == Diff(n) IN
           /\ updates' = d.updates
           /\ deletes' = d.deletes
           /\ noops' = d.noops
    /\ desired' = updates
    /\ listed' = Append(listed, Config.TargetCalendarID)
    /\ result' = ListErr(Config.TargetCalendarID)
    /\ pc' = "done"
    /\ UNCHANGED <<mainVars, Config, UpdateConcurrency, calendars, cancelled, idx, todo, di,
                   sem, workers, mu, errs, run, listing, calls, finished, failed, edit>>

----------------------------------------------------------------------------
(* Sync, concurrent part: sync.go:156-203. *)

\* Mutant: the limit is not enforced.
CanAcquire_Unbounded(n) == ~cancelled

\* Mutant: a free token is handed out although the context is done.
CanAcquire_IgnoreCtx(n) == UpdateConcurrency - sem >= n

\* semaphore.Weighted.Acquire(ctx, n) returns nil: the context is not done
\* and n tokens are free.
CanAcquire(n) == ~cancelled /\ UpdateConcurrency - sem >= n

Op(op, key) == [op |-> op, key |-> key]

\* sync.go:160-162, 177-179, 195-197: Acquire returns ctx.Err()
AcquireCancelled ==
    /\ pc \in {"updates", "deletes", "wait"}
    /\ cancelled
    /\ result' = CtxErr
    /\ pc' = "done"
    /\ UNCHANGED <<mainVars, Config, UpdateConcurrency, calendars, cancelled, idx, updates,
                   deletes, todo, di, sem, workers, mu, errs, run, desired,
                   listing, noops, listed, calls, finished, failed, edit>>

\* sync.go:159-175: one iteration of the range over the map, in any order
StartImport ==
    /\ pc = "updates"
    /\ CanAcquire(1)
    /\ \E id \in todo :
         /\ todo' = todo \ {id}
         /\ workers' = Put(workers, Op("import", id), "call")
         /\ calls' = calls \cup {Op("import", id)}
         /\ pc' = ApplyPc(todo \ {id}, di, deletes)
    /\ sem' = sem + 1
    /\ UNCHANGED <<mainVars, Config, UpdateConcurrency, calendars, cancelled, idx, updates,
                   deletes, di, mu, errs, result, run, desired, listing, noops,
                   listed, finished, failed, edit>>

\* sync.go:176-192: one iteration of the loop over deletes
StartDelete ==
    /\ pc = "deletes"
    /\ CanAcquire(1)
    /\ di' = di + 1
    /\ workers' = Put(workers, Op("delete", deletes[di]), "call")
    /\ calls' = calls \cup {Op("delete", deletes[di])}
    /\ pc' = ApplyPc(todo, di + 1, deletes)
    /\ sem' = sem + 1
    /\ UNCHANGED <<mainVars, Config, UpdateConcurrency, calendars, cancelled, idx, updates,
                   deletes, todo, mu, errs, result, run, desired, listing, noops,
                   listed, finished, failed, edit>>

\* Mutant: the final Acquire asks for one token only.
WaitAll_One ==
    /\ pc = "wait"
    /\ CanAcquire(1)
    /\ sem' = sem + 1
    /\ result' = IF Len(errs) > 0 THEN Joined(errs) ELSE NilErr
    /\ pc' = "done"
    /\ UNCHANGED <<mainVars, Config, UpdateConcurrency, calendars, cancelled, idx, updates,
                   deletes, todo, di, workers, mu, errs, run, desired, listing,
                   noops, listed, calls, finished, failed, edit>>

\* sync.go:194-203: all tokens acquired, errs read
WaitAll ==
    /\ pc = "wait"
    /\ CanAcquire(UpdateConcurrency)
    /\ sem' = sem + UpdateConcurrency
    /\ result' = IF Len(errs) > 0 THEN Joined(errs) ELSE NilErr
    /\ pc' = "done"
    /\ UNCHANGED <<mainVars, Config, UpdateConcurrency, calendars, cancelled, idx, updates,
                   deletes, todo, di, workers, mu, errs, run, desired, listing,
                   noops, listed, calls, finished, failed, edit>>

At(w, where) == w \in DOMAIN workers /\ workers[w] = where

Goto(w, where) == workers' = [workers EXCEPT ![w] = where]

Target == calendars[Config.TargetCalendarID]

\* sync.go:168, the call succeeds
ImportOK(w) ==
    /\ At(w, "call") /\ w.op = "import"
    /\ \E i \in IF Matches(Target, updates[w.key]) = {} THEN {0}
                ELSE Matches(Target, updates[w.key]) :
         calendars' = [calendars EXCEPT ![Config.TargetCalendarID] =
                          Import(Target, updates[w.key], i)]
    /\ Goto(w, "release")
    /\ UNCHANGED <<mainVars, Config, UpdateConcurrency, cancelled, pc, idx, updates, deletes,
                   todo, di, sem, mu, errs, result, run, desired, listing, noops,
                   listed, calls, finished, failed, edit>>

\* sync.go:185, the call succeeds
DeleteOK(w) ==
    /\ At(w, "call") /\ w.op = "delete"
    /\ calendars' = [calendars EXCEPT ![Config.TargetCalendarID] = Delete(Target, w.key)]
    /\ Goto(w, "release")
    /\ UNCHANGED <<mainVars, Config, UpdateConcurrency, cancelled, pc, idx, updates, deletes,
                   todo, di, sem, mu, errs, result, run, desired, listing, noops,
                   listed, calls, finished, failed, edit>>

\* Mutant: the error is appended without the mutex being taken.
CallFail_NoLock(w) ==
    /\ At(w, "call")
    /\ Goto(w, "append")
    /\ failed' = failed \cup {w}
    /\ UNCHANGED <<mainVars, Config, UpdateConcurrency, calendars, cancelled, pc, idx,
                   updates, deletes, todo, di, sem, mu, errs, result, run, desired,
                   listing, noops, listed, calls, finished, edit>>

\* sync.go:169-170, 186-187: the call returns an error, mu.Lock()
CallFail(w) ==
    /\ At(w, "call")
    /\ ~mu
    /\ mu' = TRUE
    /\ Goto(w, "append")
    /\ failed' = failed \cup {w}
    /\ UNCHANGED <<mainVars, Config, UpdateConcurrency, calendars, cancelled, pc, idx,
                   updates, deletes, todo, di, sem, errs, result, run, desired,
                   listing, noops, listed, calls, finished, edit>>

\* sync.go:171-172, 188-189: append to errs, mu.Unlock()
AppendErr(w) ==
    /\ At(w, "append")
    /\ errs' = Append(errs, OpErr(w))
    /\ mu' = FALSE
    /\ Goto(w, "release")
    /\ UNCHANGED <<mainVars, Config, UpdateConcurrency, calendars, cancelled, pc, idx,
                   updates, deletes, todo, di, sem, result, run, desired, listing,
                   noops, listed, calls, finished, failed, edit>>

\* sync.go:164, 181: the deferred sem.Release(1); the goroutine returns
Release(w) ==
    /\ At(w, "release")
    /\ sem' = sem - 1
    /\ workers' = Remove(workers, w)
    /\ finished' = finished \cup {w}
    /\ UNCHANGED <<mainVars, Config, UpdateConcurrency, calendars, cancelled, pc, idx,
                   updates, deletes, todo, di, mu, errs, result, run, desired,
                   listing, noops, listed, calls, failed, edit>>

----------------------------------------------------------------------------
(* The environment of Sync. *)

\* The caller's context is cancelled or its deadline passes.
Cancel ==
    /\ pc /= "done"
    /\ ~cancelled
    /\ cancelled' = TRUE
    /\ UNCHANGED <<mainVars, Config, UpdateConcurrency, calendars, pc, idx, updates, deletes,
                   todo, di, sem, workers, mu, errs, result, run, desired, listing,
                   noops, listed, calls, finished, failed, edit>>

SourceIds == {Config.SourceCalendars[i].ID : i \in DOMAIN Config.SourceCalendars}

Flip(transparency) == IF transparency = "transparent" THEN "opaque" ELSE "transparent"

\* After a clean run somebody edits one source event: its transparency is
\* flipped between free and busy, or it is cancelled.
EditSource ==
    /\ pc = "done"
    /\ result = NilErr
    /\ run < MaxRuns
    /\ edit = NoEdit
    /\ \E c \in SourceIds : \E i \in DOMAIN calendars[c] :
         \E e \in {[calendars[c][i] EXCEPT !.Status = "cancelled"],
                   [calendars[c][i] EXCEPT !.Transparency = Flip(@)]} :
            /\ e /= calendars[c][i]
            /\ calendars' = [calendars EXCEPT ![c][i] = e]
            /\ edit' = [run |-> run, cal |-> c, before |-> calendars[c][i], after |-> e]
    /\ UNCHANGED <<mainVars, Config, UpdateConcurrency, cancelled, pc, idx, updates, deletes,
                   todo, di, sem, workers, mu, errs, result, run, desired, listing,
                   noops, listed, calls, finished, failed>>

\* The program is started again (main, part_001:19-57): a new process, a
\* new context, the same configuration.
Rerun ==
    /\ pc = "done"
    /\ result = NilErr
    /\ run < MaxRuns
    /\ run' = run + 1
    /\ cancelled' = FALSE
    /\ pc' = "sources"
    /\ idx' = 1
    /\ updates' = EmptyMap
    /\ deletes' = <<>>
    /\ todo' = {}
    /\ di' = 1
    /\ sem' = 0
    /\ workers' = EmptyMap
    /\ mu' = FALSE
    /\ errs' = <<>>
    /\ result' = NoResult
    /\ desired' = EmptyMap
    /\ listing' = <<>>
    /\ noops' = {}
    /\ listed' = <<>>
    /\ calls' = {}
    /\ finished' = {}
    /\ failed' = {}
    /\ UNCHANGED <<mainVars, Config, UpdateConcurrency, calendars, edit>>

Ops == {Op("import", id) : id \in DOMAIN updates} \cup {Op("delete", id) : id \in Range(deletes)}

Next ==
    \/ ListSource
    \/ ListSourceFail
    \/ ListExclude
    \/ ListExcludeFail
    \/ ListTarget
    \/ ListTargetFail
    \/ AcquireCancelled
    \/ StartImport
    \/ StartDelete
    \/ WaitAll
    \/ \E w \in DOMAIN workers : ImportOK(w)
    \/ \E w \in DOMAIN workers : DeleteOK(w)
    \/ \E w \in DOMAIN workers : CallFail(w)
    \/ \E w \in DOMAIN workers : AppendErr(w)
    \/ \E w \in DOMAIN workers : Release(w)
    \/ Cancel
    \/ EditSource
    \/ Rerun

Spec == Init /\ [][Next]_vars

----------------------------------------------------------------------------
(* Vocabulary of the properties. *)

ExcludeIds == Range(Config.ExcludeCalendarIDs)

SourceEvents == UNION {Range(calendars[c]) : c \in SourceIds}

ExcludeEvents == UNION {Range(calendars[c]) : c \in ExcludeIds}

\* Identities of the source events that pass the filter and are in no
\* exclusion calendar.
Wanted ==
    {icalUID(e) : e \in {x \in SourceEvents : shouldSync(x)}}
        \ {icalUID(e) : e \in ExcludeEvents}

\* Identities that occur in a source calendar and in an exclusion calendar.
Both == {icalUID(e) : e \in SourceEvents} \cap {icalUID(e) : e \in ExcludeEvents}

Identities(l) == {l[i].ICalUID : i \in DOMAIN l}

UniqueIdentities(l) == \A i, j \in DOMAIN l : l[i].ICalUID = l[j].ICalUID => i = j

\* The calendars are as the current run listed them.
Fresh == edit = NoEdit \/ edit.run < run

\* No source was edited between the previous run and the current one.
NoChange == edit = NoEdit \/ edit.run /= run - 1

\* Every configured calendar in the order Sync lists them.
AllCalendars ==
    [i \in DOMAIN Config.SourceCalendars |-> Config.SourceCalendars[i].ID]
        \o Config.ExcludeCalendarIDs \o <<Config.TargetCalendarID>>

\* The target listing has completed: the diff is made.
DiffDone ==
    \/ pc \in {"updates", "deletes", "wait"}
    \/ pc = "done" /\ result.kind /= "listing"

\* The sets of the ChangeSet, as sets of identities.
CreateUpdate == DOMAIN updates

DeleteSet == {listing[i].ICalUID : i \in {j \in DOMAIN listing : listing[j].Id \in Range(deletes)}}

\* The run returned nil.
Clean == pc = "done" /\ result = NilErr

----------------------------------------------------------------------------
(* C1 *)

\* C1: after a run in which every listing and every Import/Delete call
\* succeeded, started on a target whose identities are unique per event, the
\* identities of the target events are exactly the identities of the source
\* events that pass the filter and are in no exclusion calendar, and every
\* target event is field-equal to its desired event.
C1_Mirror ==
    (Clean /\ Fresh /\ UniqueIdentities(listing)) =>
        /\ Identities(Target) = Wanted
        /\ DOMAIN desired = Wanted
        /\ UniqueIdentities(Target)
        /\ \A t \in Range(Target) : equalEvent(desired[t.ICalUID], t)

\* A clean run that imported and deleted.
C1_Witness ==
    /\ Clean /\ Fresh /\ UniqueIdentities(listing)
    /\ \E w \in calls : w.op = "import"
    /\ \E w \in calls : w.op = "delete"

----------------------------------------------------------------------------
(* C2 *)

\* C2 as stated: a run that follows a clean run, with no source or exclusion
\* calendar changed in between, computes an empty ChangeSet and starts no
\* Import and no Delete.  (Rerun starts a run only after a clean one.)
C2_Idempotent ==
    (run >= 2 /\ NoChange /\ DiffDone) =>
        updates = EmptyMap /\ deletes = <<>> /\ calls = {}

\* C2, amended: the same, for a target in which no two events carry the
\* same identity when the second run lists it.
C2_IdempotentUnique ==
    (run >= 2 /\ NoChange /\ DiffDone /\ UniqueIdentities(listing)) =>
        updates = EmptyMap /\ deletes = <<>> /\ calls = {}

\* A second run over unchanged sources and a non-empty target has returned.
C2_Witness ==
    /\ run >= 2 /\ NoChange /\ Clean /\ UniqueIdentities(listing)
    /\ listing /= <<>>
    /\ noops /= {}

----------------------------------------------------------------------------
(* C3 *)

Covered == CreateUpdate \cup DeleteSet \cup noops = DOMAIN desired \cup Identities(listing)

\* C3 as stated: after the diff every identity of the desired mapping or of
\* the target listing is in exactly one of create/update, delete and no-op,
\* also when several target events carry the same identity.
C3_Partition ==
    DiffDone =>
        /\ Covered
        /\ CreateUpdate \cap DeleteSet = {}
        /\ CreateUpdate \cap noops = {}
        /\ DeleteSet \cap noops = {}

\* C3, amended: every identity is in at least one set, create/update shares
\* no identity with delete or no-op, and delete and no-op share no identity
\* when no two listed target events carry the same identity.
C3_PartitionUnique ==
    DiffDone =>
        /\ Covered
        /\ CreateUpdate \cap DeleteSet = {}
        /\ CreateUpdate \cap noops = {}
        /\ UniqueIdentities(listing) => DeleteSet \cap noops = {}

\* A diff over distinct identities that found a no-op and a delete.
C3_Witness ==
    /\ DiffDone /\ UniqueIdentities(listing)
    /\ noops /= {} /\ DeleteSet /= {}

\* A diff with something to create or update and something to delete.
C3_WitnessUpdate ==
    /\ DiffDone /\ UniqueIdentities(listing)
    /\ CreateUpdate /= {} /\ DeleteSet /= {}

----------------------------------------------------------------------------
(* C4 *)

\* C4: an identity that occurs in a source calendar and in an exclusion
\* calendar is not in the mapping once the exclusion calendars are listed,
\* is never imported, every target event that carries it is put in the
\* delete list (and is gone after a clean run), and no source calendar is
\* listed after an exclusion calendar, whatever the order of the two lists.
C4_ExclusionPrecedence ==
    Fresh =>
        /\ (pc = "target" \/ Len(listed) = Len(AllCalendars)) =>
               Both \cap DOMAIN updates = {}
        /\ DiffDone => Both \cap DOMAIN desired = {}
        /\ \A id \in Both : Op("import", id) \notin calls
        /\ DiffDone => \A t \in Range(listing) :
               t.ICalUID \in Both => t.Id \in Range(deletes)
        /\ Clean => Both \cap Identities(Target) = {}
        /\ \A i, j \in DOMAIN listed :
               (i < j /\ listed[i] \in ExcludeIds) => listed[j] \notin SourceIds

\* A source event that passes the filter is excluded and its target copy
\* is in the delete list.
C4_Witness ==
    /\ DiffDone /\ Fresh
    /\ \E e \in SourceEvents : shouldSync(e) /\ icalUID(e) \in Both
    /\ \E t \in Range(listing) : t.ICalUID \in Both /\ t.Id \in Range(deletes)

----------------------------------------------------------------------------
(* C5 *)

\* Sync returned from its last statements: nil or the joined error.
Returned == pc = "done" /\ result.kind \in {"nil", "joined"}

\* C5: when Sync returns without the context having been cancelled, every
\* operation of the ChangeSet was started and has finished, the operations
\* that did not fail are in effect on the target, the joined error holds
\* exactly one entry for each failed operation, naming it, and none for any
\* other, and the result is nil exactly when no operation failed.
C5_PartialFailure ==
    Returned =>
        /\ ~cancelled
        /\ calls = Ops /\ finished = calls /\ workers = EmptyMap
        /\ \A w \in calls \ failed :
              IF w.op = "import"
              THEN \E t \in Range(Target) :
                      t.ICalUID = w.key /\ equalEvent(updates[w.key], t)
              ELSE \A t \in Range(Target) : t.Id /= w.key
        /\ Range(errs) = {OpErr(w) : w \in failed}
        /\ Len(errs) = Cardinality(failed)
        /\ result = NilErr <=> failed = {}
        /\ result /= NilErr => result = Joined(errs)

\* Three operations or more, exactly one of which failed.
C5_Witness ==
    /\ Returned
    /\ Cardinality(calls) >= 3
    /\ Cardinality(failed) = 1

----------------------------------------------------------------------------
(* C6 *)

\* C6: the goroutines started and not yet returned are never more than
\* UpdateConcurrency, and the tokens held are exactly one for each of them:
\* one acquired before each start, one released at each return, after a
\* success and after a failure alike (plus all of them once the final
\* Acquire has succeeded).
C6_BoundedConcurrency ==
    /\ Cardinality(DOMAIN workers) <= UpdateConcurrency
    /\ sem \in 0..UpdateConcurrency
    /\ sem = Cardinality(DOMAIN workers) + (IF Returned THEN UpdateConcurrency ELSE 0)
    /\ DOMAIN workers = calls \ finished

\* The limit is reached while operations are still to be dispatched, one of
\* the earlier ones having failed and returned.
C6_Witness ==
    /\ UpdateConcurrency >= 2
    /\ Cardinality(DOMAIN workers) = UpdateConcurrency
    /\ pc \in {"updates", "deletes"}
    /\ failed \cap finished /= {}

----------------------------------------------------------------------------
(* C7 *)

IsPrefix(a, b) == Len(a) <= Len(b) /\ \A i \in DOMAIN a : a[i] = b[i]

\* C7: the calendars are listed one after the other in the order sources,
\* exclusions, target; a failed listing ends the run with an error naming
\* the calendar that was being listed, with nothing listed after it and no
\* Import or Delete started; and an Import or Delete is started only after
\* the target listing has completed.
C7_ListingFatal ==
    /\ IsPrefix(listed, AllCalendars)
    /\ result.kind = "listing" =>
          /\ pc = "done"
          /\ listed /= <<>> /\ result.cal = listed[Len(listed)]
          /\ calls = {} /\ workers = EmptyMap
    /\ calls /= {} => DiffDone /\ listed = AllCalendars

\* The listing of the target failed after both a desired event and a
\* target event were read.
C7_Witness ==
    /\ pc = "done" /\ result = ListErr(Config.TargetCalendarID)
    /\ updates /= EmptyMap /\ deletes /= <<>>

\* The listing of an exclusion calendar other than the last one failed.
C7_WitnessExclude ==
    /\ pc = "done" /\ result.kind = "listing"
    /\ result.cal \in ExcludeIds
    /\ Len(listed) < Len(AllCalendars) - 1

----------------------------------------------------------------------------
(* C8 *)

AtAcquire == pc \in {"updates", "deletes", "wait"}

\* C8: once the context is cancelled no Import or Delete is started any
\* more, and the only step Sync takes from an Acquire is to return the
\* context's error, whatever the goroutines already started are doing and
\* whatever errors they have collected.
C8_Cancellation ==
    /\ [][cancelled => calls' \subseteq calls]_vars
    /\ [][(cancelled /\ AtAcquire /\ pc' /= pc) => (pc' = "done" /\ result' = CtxErr)]_vars
    /\ [](result = CtxErr => cancelled /\ pc = "done")

\* Sync has returned the context's error while a goroutine is still running,
\* an error is collected and an operation was never started.
C8_Witness ==
    /\ pc = "done" /\ result = CtxErr
    /\ workers /= EmptyMap
    /\ errs /= <<>>
    /\ calls /= Ops

----------------------------------------------------------------------------
(* C9 *)

\* C9 as stated: the event Sync imports for an identity that a target event
\* carries has that target event's id.
C9_CarriesTargetId ==
    DiffDone => \A id \in DOMAIN updates : \A t \in Range(listing) :
        t.ICalUID = id => updates[id].Id = t.Id

\* C9, amended: the event Sync imports carries no event id, only the
\* identity as its iCalUID, which is the iCalUID of the target event to
\* update; it is the upsert by iCalUID that replaces the target event in
\* place: after a clean run on distinct identities that event has kept its
\* id and has the desired fields.
C9_CarriesIdentity ==
    /\ DiffDone => \A id \in DOMAIN updates :
          updates[id].Id = "" /\ updates[id].ICalUID = id
    /\ (Clean /\ UniqueIdentities(listing)) =>
          \A t \in Range(listing) : t.ICalUID \in DOMAIN updates =>
              \E t2 \in Range(Target) :
                  /\ t2.Id = t.Id /\ t2.ICalUID = t.ICalUID
                  /\ equalEvent(updates[t.ICalUID], t2)

\* A clean run that updated a target event.
C9_Witness ==
    /\ Clean /\ UniqueIdentities(listing)
    /\ \E t \in Range(listing) : Op("import", t.ICalUID) \in calls

----------------------------------------------------------------------------
(* C10 *)

Normalised(transparency) == IF transparency = "" THEN "opaque" ELSE transparency

ListedEvents == UNION {Range(calendars[c]) : c \in SourceIds \cup ExcludeIds}

\* Two events have the same identity exactly when they have the same event
\* id and the same normalised transparency.
IdentityIsKey ==
    \A a, b \in ListedEvents :
        icalUID(a) = icalUID(b) <=>
            (a.Id = b.Id /\ Normalised(a.Transparency) = Normalised(b.Transparency))

\* The run after a source event's transparency was flipped has returned nil.
AfterFlip ==
    /\ edit /= NoEdit
    /\ edit.before.Transparency /= edit.after.Transparency
    /\ run = edit.run + 1
    /\ Clean

\* The flipped event had been synced: the target held an event of its old
\* identity when this run listed it.
WasSynced == icalUID(edit.before) \in Identities(listing)

\* C10 as stated: the identity is a key of (event id, normalised
\* transparency), and after the transparency of a synced event is flipped
\* the next run leaves no target event of the old identity and one of the
\* new identity.
C10_Identity ==
    /\ IdentityIsKey
    /\ (AfterFlip /\ WasSynced) =>
          /\ icalUID(edit.before) /= icalUID(edit.after)
          /\ icalUID(edit.before) \notin Identities(Target)
          /\ icalUID(edit.after) \in Identities(Target)

\* C10, amended: the identity is a key of (event id, normalised
\* transparency); a flip changes it; after the next run the target holds an
\* event of the old identity only if another synced source event still has
\* that identity, and an event of the new identity exactly when a source
\* event of the new identity passes the filter and no exclusion calendar
\* holds it.
C10_IdentityFiltered ==
    /\ IdentityIsKey
    /\ AfterFlip =>
          /\ icalUID(edit.before) /= icalUID(edit.after)
          /\ icalUID(edit.before) \in Identities(Target) <=> icalUID(edit.before) \in Wanted
          /\ icalUID(edit.after) \in Identities(Target) <=> icalUID(edit.after) \in Wanted

\* The run after a flip deleted the target event of the old identity and
\* imported one for the new identity.
C10_Witness ==
    /\ AfterFlip
    /\ \E t \in Range(listing) :
          t.ICalUID = icalUID(edit.before) /\ Op("delete", t.Id) \in calls
    /\ Op("import", icalUID(edit.after)) \in calls
    /\ icalUID(edit.after) \in Identities(Target)

----------------------------------------------------------------------------
(* C11 *)

\* The filter in the words of the specification: the event is not cancelled
\* and, when busy-only is enabled, it is not free.
PassesFilter(e) ==
    e.Status /= "cancelled" /\ (~Config.BusyOnly \/ e.Transparency /= "transparent")

\* The diff of the run after a source event that passed the filter was
\* cancelled, the target still holding the event synced for it.
AfterCancel ==
    /\ edit /= NoEdit
    /\ edit.before.Status /= "cancelled" /\ edit.after.Status = "cancelled"
    /\ PassesFilter(edit.before)
    /\ run = edit.run + 1
    /\ DiffDone
    /\ icalUID(edit.before) \in Identities(listing)

\* Another source event that passes the filter has the identity of the
\* cancelled one.
Shared == \E x \in SourceEvents : PassesFilter(x) /\ icalUID(x) = icalUID(edit.before)

\* C11 as stated: the run after a synced source event was cancelled leaves
\* its identity out of the desired mapping, puts the target event of that
\* identity in the delete list, and when it returns nil the target holds no
\* event of that identity.
C11_CancelledDeleted ==
    AfterCancel =>
        /\ icalUID(edit.before) \notin DOMAIN desired
        /\ \A t \in Range(listing) :
              t.ICalUID = icalUID(edit.before) => t.Id \in Range(deletes)
        /\ Clean => icalUID(edit.before) \notin Identities(Target)

\* C11, amended: the same when no other source event that passes the filter
\* has the identity of the cancelled one; when one has, the identity stays
\* in the desired mapping and, the target events having distinct identities,
\* no target event of it is deleted and the target still holds it after the
\* run.
C11_CancelledUnshared ==
    AfterCancel =>
        IF Shared
        THEN /\ icalUID(edit.before) \in DOMAIN desired
             /\ UniqueIdentities(listing) =>
                   /\ \A t \in Range(listing) :
                         t.ICalUID = icalUID(edit.before) => t.Id \notin Range(deletes)
                   /\ Clean => icalUID(edit.before) \in Identities(Target)
        ELSE /\ icalUID(edit.before) \notin DOMAIN desired
             /\ \A t \in Range(listing) :
                   t.ICalUID = icalUID(edit.before) => t.Id \in Range(deletes)
             /\ Clean => icalUID(edit.before) \notin Identities(Target)

\* The run after the only source event of a synced identity was cancelled
\* has deleted the target event and returned nil.
C11_Witness ==
    /\ AfterCancel /\ ~Shared /\ Clean
    /\ \E t \in Range(listing) :
          t.ICalUID = icalUID(edit.before) /\ Op("delete", t.Id) \in calls

----------------------------------------------------------------------------
(* C12 *)

\* The listed source events as (position of the source, event) pairs.
Occurrences ==
    {o \in (DOMAIN Config.SourceCalendars) \X SourceEvents :
        o[2] \in Range(calendars[Config.SourceCalendars[o[1]].ID])}

\* The occurrence is the only one of its identity that passes the filter.
Single(o) ==
    /\ shouldSync(o[2])
    /\ \A q \in Occurrences :
          (shouldSync(q[2]) /\ icalUID(q[2]) = icalUID(o[2])) => q = o

\* C12: the desired event of an identity seen in a single source has the
\* title prefix + source title and the source's description and location
\* when no mask is configured, the title prefix + mask and an empty
\* description and location when one is; start, end and transparency are
\* those of the source event in both cases; and on an empty target the
\* identities to create are exactly the desired ones.
C12_TitleTransform ==
    (DiffDone /\ Fresh) =>
        /\ \A o \in Occurrences :
              (Single(o) /\ icalUID(o[2]) \in DOMAIN desired) =>
                  LET d == desired[icalUID(o[2])]
                      prefix == Config.SourceCalendars[o[1]].Prefix
                  IN  /\ d.ICalUID = icalUID(o[2])
                      /\ d.Start = o[2].Start /\ d.End = o[2].End
                      /\ d.Transparency = o[2].Transparency
                      /\ IF Config.Mask = ""
                         THEN /\ d.Summary = prefix \o o[2].Summary
                              /\ d.Description = o[2].Description
                              /\ d.Location = o[2].Location
                         ELSE /\ d.Summary = prefix \o Config.Mask
                              /\ d.Description = "" /\ d.Location = ""
        /\ listing = <<>> => CreateUpdate = DOMAIN desired /\ deletes = <<>>

\* A masked event with a description was built for an empty target, and it
\* is the one thing to create.
C12_Witness ==
    /\ DiffDone /\ Fresh /\ listing = <<>>
    /\ Config.Mask /= ""
    /\ \E o \in Occurrences :
          /\ Single(o) /\ o[2].Description /= ""
          /\ CreateUpdate = {icalUID(o[2])}
          /\ updates[icalUID(o[2])].Summary = "[W] busy"

\* The scenario of the specification: "Lunch" under the prefix "[W] " with
\* no mask, on an empty target.
C12_WitnessLunch ==
    /\ DiffDone /\ Fresh /\ listing = <<>>
    /\ Config.Mask = ""
    /\ \E o \in Occurrences :
          /\ Single(o)
          /\ CreateUpdate = {icalUID(o[2])}
          /\ updates[icalUID(o[2])].Summary = "[W] Lunch"

----------------------------------------------------------------------------
(* C13 *)

\* Identities of the listed source events that pass the filter as the
\* specification words it.
Passing == {icalUID(e) : e \in {x \in SourceEvents : PassesFilter(x)}}

\* The source loop has ended and no exclusion calendar is listed yet.
SourcesListed == pc = "excludes" /\ idx = 1

\* C13: the mapping built from the sources holds exactly the identities of
\* the source events that are not cancelled and, under busy-only, not free
\* (an unset transparency counting as busy); every event of an exclusion
\* calendar, cancelled or not, takes its identity out of the mapping.
C13_BusyOnlyFilter ==
    Fresh =>
        /\ SourcesListed => DOMAIN updates = Passing
        /\ DiffDone => DOMAIN desired = Passing \ {icalUID(e) : e \in ExcludeEvents}

\* Under busy-only the sources held a free event, which was skipped, and an
\* event of unset transparency, which entered the mapping.
C13_Witness ==
    /\ Fresh /\ SourcesListed
    /\ Config.BusyOnly
    /\ \E e \in SourceEvents :
          e.Transparency = "transparent" /\ e.Status /= "cancelled"
             /\ icalUID(e) \notin DOMAIN updates
    /\ \E e \in SourceEvents : e.Transparency = "" /\ icalUID(e) \in DOMAIN updates

\* A cancelled event of an exclusion calendar took a desired identity out.
C13_WitnessExclude ==
    /\ Fresh /\ DiffDone
    /\ \E e \in ExcludeEvents :
          e.Status = "cancelled" /\ icalUID(e) \in Passing \ DOMAIN desired

----------------------------------------------------------------------------
(* main of the incremental variant: main.go:15-61. *)

\* The variables of sync.go while main.go is looked at.
SyncOff ==
    /\ Config = [ID |-> "cfg", SourceCalendars |-> <<>>, TargetCalendarID |-> "tgt",
                 ExcludeCalendarIDs |-> <<>>, BusyOnly |-> FALSE, Mask |-> ""]
    /\ UpdateConcurrency = 1
    /\ calendars = [c \in {"tgt"} |-> <<>>]
    /\ cancelled = FALSE
    /\ pc = "off"
    /\ idx = 1
    /\ updates = EmptyMap
    /\ deletes = <<>>
    /\ todo = {}
    /\ di = 1
    /\ sem = 0
    /\ workers = EmptyMap
    /\ mu = FALSE
    /\ errs = <<>>
    /\ result = NoResult
    /\ run = 1
    /\ desired = EmptyMap
    /\ listing = <<>>
    /\ noops = {}
    /\ listed = <<>>
    /\ calls = {}
    /\ finished = {}
    /\ failed = {}
    /\ edit = NoEdit

MainInit ==
    /\ SyncOff
    /\ mpc = "loadConfig"
    /\ configFile \in {File(l) : l \in ConfigLists}
    /\ statusFile \in StatusFiles
    /\ config = <<>>
    /\ status = EmptyMap
    /\ ci = 1
    /\ starts = 1
    /\ syncs = <<>>
    /\ fileAtStart = statusFile
    /\ ioerr = {}

\* main.go:18, 63-75: config.json opens and decodes
LoadConfigOK ==
    /\ mpc = "loadConfig"
    /\ configFile.kind = "json"
    /\ config' = configFile.v
    /\ mpc' = "loadStatus"
    /\ UNCHANGED <<syncVars, configFile, statusFile, status, ci, starts, syncs,
                   fileAtStart, ioerr>>

\* Mutant: the error of LoadConfig is logged and main goes on without scopes.
LoadConfigFail_GoesOn ==
    /\ mpc = "loadConfig"
    /\ ioerr' = ioerr \cup {"config"}
    /\ config' = <<>>
    /\ mpc' = "loadStatus"
    /\ UNCHANGED <<syncVars, configFile, statusFile, status, ci, starts, syncs,
                   fileAtStart>>

\* main.go:18-21: LoadConfig returns an error, log.Fatalf
LoadConfigFail ==
    /\ mpc = "loadConfig"
    /\ ioerr' = ioerr \cup {"config"}
    /\ mpc' = "fatal"
    /\ UNCHANGED <<syncVars, configFile, statusFile, config, status, ci, starts,
                   syncs, fileAtStart>>

\* main.go:22, 77-89: status.json opens and decodes
LoadStatusOK ==
    /\ mpc = "loadStatus"
    /\ statusFile.kind = "json"
    /\ status' = statusFile.v
    /\ mpc' = "connect"
    /\ UNCHANGED <<syncVars, configFile, statusFile, config, ci, starts, syncs,
                   fileAtStart, ioerr>>

\* main.go:22-28: LoadStatus returns nil and an error, which is logged; main
\* goes on with an empty map
LoadStatusFail ==
    /\ mpc = "loadStatus"
    /\ ioerr' = ioerr \cup {"status"}
    /\ status' = EmptyMap
    /\ mpc' = "connect"
    /\ UNCHANGED <<syncVars, configFile, statusFile, config, ci, starts, syncs,
                   fileAtStart>>

\* The statement main reaches when its loop is at index i.
LoopPc(i) == IF i <= Len(config) THEN "sync" ELSE "dump"

\* main.go:30-46: the client and the service are prepared
Connect ==
    /\ mpc = "connect"
    /\ ci' = 1
    /\ mpc' = LoopPc(1)
    /\ UNCHANGED <<syncVars, configFile, statusFile, config, status, starts, syncs,
                   fileAtStart, ioerr>>

\* main.go:33-35, 38-40: log.Fatalf
ConnectFail ==
    /\ mpc = "connect"
    /\ mpc' = "fatal"
    /\ UNCHANGED <<syncVars, configFile, statusFile, config, status, ci, starts,
                   syncs, fileAtStart, ioerr>>

\* A call of Sync as main sees it: the scope, the watermark handed in, the
\* watermark returned or the error.
Call(c, since, s, err) == [scope |-> c, since |-> since, s |-> s, err |-> err]

\* main.go:51-55: Sync returns a status and no error
SyncOK ==
    /\ mpc = "sync"
    /\ \E s \in Marks :
         /\ status' = Put(status, config[ci], s)
         /\ syncs' = Append(syncs, Call(config[ci], Get(status, config[ci]), s, FALSE))
    /\ ci' = ci + 1
    /\ mpc' = LoopPc(ci + 1)
    /\ UNCHANGED <<syncVars, configFile, statusFile, config, starts, fileAtStart, ioerr>>


\* Mutant: the error of Sync is logged and main goes on to the next scope.
SyncFail_GoesOn ==
    /\ mpc = "sync"
    /\ syncs' = Append(syncs, Call(config[ci], Get(status, config[ci]), ZeroStatus, TRUE))
    /\ ci' = ci + 1
    /\ mpc' = LoopPc(ci + 1)
    /\ UNCHANGED <<syncVars, configFile, statusFile, config, status, starts,
                   fileAtStart, ioerr>>

\* main.go:51-54: Sync returns an error, log.Fatalf
SyncFail ==
    /\ mpc = "sync"
    /\ syncs' = Append(syncs, Call(config[ci], Get(status, config[ci]), ZeroStatus, TRUE))
    /\ mpc' = "fatal"
    /\ UNCHANGED <<syncVars, configFile, statusFile, config, status, ci, starts,
                   fileAtStart, ioerr>>

\* main.go:58, 91-102: status.json is created and written
DumpStatusOK ==
    /\ mpc = "dump"
    /\ statusFile' = File(status)
    /\ mpc' = "exit"
    /\ UNCHANGED <<syncVars, configFile, config, status, ci, starts, syncs,
                   fileAtStart, ioerr>>

\* main.go:58-60: DumpStatus returns an error, log.Fatalf; os.Create failed
\* and left the file alone, or Encode failed on the truncated file
DumpStatusFail ==
    /\ mpc = "dump"
    /\ statusFile' \in {statusFile, Corrupt}
    /\ ioerr' = ioerr \cup {"save"}
    /\ mpc' = "fatal"
    /\ UNCHANGED <<syncVars, configFile, config, status, ci, starts, syncs, fileAtStart>>

\* The process is started again over the files the last one left.
Restart ==
    /\ mpc \in {"exit", "fatal"}
    /\ starts < MaxStarts
    /\ starts' = starts + 1
    /\ mpc' = "loadConfig"
    /\ config' = <<>>
    /\ status' = EmptyMap
    /\ ci' = 1
    /\ syncs' = <<>>
    /\ fileAtStart' = statusFile
    /\ ioerr' = {}
    /\ UNCHANGED <<syncVars, configFile, statusFile>>

MainNext ==
    \/ LoadConfigOK
    \/ LoadConfigFail
    \/ LoadStatusOK
    \/ LoadStatusFail
    \/ Connect
    \/ ConnectFail
    \/ SyncOK
    \/ SyncFail
    \/ DumpStatusOK
    \/ DumpStatusFail
    \/ Restart

MainSpec == MainInit /\ [][MainNext]_vars

----------------------------------------------------------------------------
(* C14 *)

\* Every scope of the configuration was synced, in order, without an error.
AllSynced ==
    /\ Len(syncs) = Len(config)
    /\ \A i \in DOMAIN syncs : syncs[i].scope = config[i] /\ ~syncs[i].err

\* C14: status.json is written only after the Sync of every scope has
\* returned without an error, a successful write leaves each scope's new
\* watermark in it, and when the Sync of a scope returns an error the
\* process stops with status.json as it was at the start.
C14_WatermarkPersistence ==
    /\ [][statusFile' /= statusFile => (mpc = "dump" /\ AllSynced)]_vars
    /\ [](mpc = "exit" =>
            /\ statusFile.kind = "json"
            /\ \A i \in DOMAIN syncs : statusFile.v[syncs[i].scope] = syncs[i].s)
    /\ []((\E i \in DOMAIN syncs : syncs[i].err) =>
            mpc = "fatal" /\ statusFile = fileAtStart)

\* The second scope's Sync failed after the first returned a new watermark,
\* status.json holding older watermarks for both.
C14_Witness ==
    /\ mpc = "fatal"
    /\ Len(syncs) = 2 /\ ~syncs[1].err /\ syncs[2].err
    /\ fileAtStart.kind = "json"
    /\ syncs[1].s /= fileAtStart.v[syncs[1].scope]

\* Both scopes synced and status.json holds their new watermarks.
C14_WitnessSaved ==
    /\ mpc = "exit"
    /\ Len(syncs) = 2
    /\ statusFile /= fileAtStart

----------------------------------------------------------------------------
(* C15 *)

\* C15 as stated: an error of LoadConfig or of LoadStatus ends the process
\* before any scope is synced, and an error of DumpStatus ends it after the
\* scopes were synced.
C15_IOFatal ==
    /\ "config" \in ioerr => (mpc = "fatal" /\ syncs = <<>>)
    /\ "status" \in ioerr => (mpc = "fatal" /\ syncs = <<>>)
    /\ "save" \in ioerr => (mpc = "fatal" /\ AllSynced)

\* C15, amended: an error of LoadConfig ends the process before any scope is
\* synced; an error of LoadStatus does not end it: main goes on with an
\* empty status, so that every scope is synced from no watermark; an error
\* of DumpStatus ends the process after the scopes were synced.
C15_IOFatalButStatus ==
    /\ "config" \in ioerr => (mpc = "fatal" /\ syncs = <<>>)
    /\ "status" \in ioerr =>
          /\ mpc = "connect" => status = EmptyMap
          /\ \A i \in DOMAIN syncs : syncs[i].since = ZeroStatus
    /\ "save" \in ioerr => (mpc = "fatal" /\ AllSynced)

\* status.json did not decode, both scopes were synced from no watermark and
\* the process wrote a new status.json and ended well.
C15_Witness ==
    /\ "status" \in ioerr
    /\ fileAtStart = Corrupt
    /\ Len(syncs) = 2
    /\ mpc = "exit" /\ statusFile.kind = "json"

\* The process ended on an error of LoadConfig.
C15_WitnessConfig == "config" \in ioerr /\ mpc = "fatal" /\ starts = 2

\* The process ended on an error of DumpStatus that lost status.json.
C15_WitnessSave ==
    /\ "save" \in ioerr /\ mpc = "fatal"
    /\ fileAtStart.kind = "json" /\ statusFile = Corrupt

----------------------------------------------------------------------------
(* C16 *)

\* The delete list is the list of the ids in s, each once.
DeletesAre(s) == Range(deletes) = s /\ Len(deletes) = Cardinality(s)

\* The listed target event at position j follows a target event of the same
\* identity that is field-equal to the desired event.
FollowsEqual(j) ==
    \E i \in 1..(j - 1) :
        /\ listing[i].ICalUID = listing[j].ICalUID
        /\ listing[i].ICalUID \in DOMAIN desired
        /\ equalEvent(desired[listing[i].ICalUID], listing[i])

\* C16 as stated: after the diff the delete list holds the event ids of
\* exactly the listed target events whose identity is not in the desired
\* mapping, events no sync created included, never the id of a target event
\* whose identity is desired, and Delete is called with these ids only.
C16_DeleteSet ==
    DiffDone =>
        /\ DeletesAre({listing[j].Id : j \in {k \in DOMAIN listing :
                          listing[k].ICalUID \notin DOMAIN desired}})
        /\ \A w \in calls : w.op = "delete" => w.key \in Range(deletes)

\* C16, amended: the delete list holds the event ids of exactly the listed
\* target events whose identity is not in the desired mapping or that follow,
\* in the listing, a field-equal target event of the same identity; with
\* distinct identities in the target these are the events of an identity
\* that is not desired.
C16_DeleteSetFirst ==
    DiffDone =>
        /\ DeletesAre({listing[j].Id : j \in {k \in DOMAIN listing :
                          listing[k].ICalUID \notin DOMAIN desired \/ FollowsEqual(k)}})
        /\ UniqueIdentities(listing) =>
              DeletesAre({listing[j].Id : j \in {k \in DOMAIN listing :
                             listing[k].ICalUID \notin DOMAIN desired}})
        /\ \A w \in calls : w.op = "delete" => w.key \in Range(deletes)

\* An event nobody synced is deleted by its own id next to a target event
\* that stays because its identity is desired.
C16_Witness ==
    /\ DiffDone /\ UniqueIdentities(listing)
    /\ Foreign \in Range(listing)
    /\ Op("delete", Foreign.Id) \in calls
    /\ Foreign \notin Range(Target)
    /\ \E t \in Range(listing) : t.ICalUID \in DOMAIN desired /\ t.Id \notin Range(deletes)

----------------------------------------------------------------------------
(* C17 *)

\* The event e with one of the eight compared fields changed.
Variants(e) ==
    {[e EXCEPT !.Summary = @ \o "!"],
     [e EXCEPT !.Description = @ \o "!"],
     [e EXCEPT !.Location = @ \o "!"],
     [e EXCEPT !.Start.Date = @ \o "!"],
     [e EXCEPT !.Start.DateTime = @ \o "!"],
     [e EXCEPT !.End.Date = @ \o "!"],
     [e EXCEPT !.End.DateTime = @ \o "!"],
     [e EXCEPT !.Transparency = IF @ = "opaque" THEN "" ELSE "opaque"]}

\* The diff of the desired mapping against a target that holds the event t
\* only.
DiffOne(t) == targetCallback([updates |-> desired, deletes |-> <<>>, noops |-> {}], t)

\* A target event is classified no-op exactly when it is field-equal to the
\* desired event of its identity, and is left in the upsert set otherwise.
Classified ==
    \A t \in Range(listing) : t.ICalUID \in DOMAIN desired =>
        IF equalEvent(desired[t.ICalUID], t)
        THEN /\ t.ICalUID \in noops /\ t.ICalUID \notin DOMAIN updates
             /\ Op("import", t.ICalUID) \notin calls
        ELSE t.ICalUID \notin noops /\ t.ICalUID \in DOMAIN updates

\* A stored copy of a desired event is a no-op; with any single one of the
\* eight fields changed it is left in the upsert set and not deleted.
Strict ==
    \A id \in DOMAIN desired :
        /\ DiffOne(Stored(desired[id], "t1")).updates = Remove(desired, id)
        /\ DiffOne(Stored(desired[id], "t1")).noops = {id}
        /\ Cardinality(Variants(desired[id])) = 8
        /\ \A v \in Variants(desired[id]) :
              /\ DiffOne(Stored(v, "t1")).updates = desired
              /\ DiffOne(Stored(v, "t1")).noops = {}
              /\ DiffOne(Stored(v, "t1")).deletes = <<>>

\* Every desired identity has a field-equal target event and the target
\* holds nothing else.
InSync ==
    /\ \A id \in DOMAIN desired : id \in Identities(listing)
    /\ \A t \in Range(listing) :
          t.ICalUID \in DOMAIN desired /\ equalEvent(desired[t.ICalUID], t)

\* Nothing is to be done, nothing is called and Sync returns nil unless its
\* context is cancelled.
NothingDone ==
    /\ updates = EmptyMap /\ deletes = <<>> /\ calls = {}
    /\ pc = "done" => result \in {NilErr, CtxErr}

\* C17 as stated: a target event whose identity is desired is a no-op if and
\* only if the eight compared fields are all equal, a difference in any one
\* of them leaving the identity in the upsert set; and when the target holds
\* a field-equal event for every desired identity and nothing else, no
\* Import and no Delete is called and Sync returns nil.
C17_StrictEquality ==
    DiffDone =>
        /\ Classified
        /\ Strict
        /\ InSync => NothingDone

\* C17, amended: the same for a target in which no two listed events carry
\* the same identity.
C17_StrictEqualityUnique ==
    (DiffDone /\ UniqueIdentities(listing)) =>
        /\ Classified
        /\ Strict
        /\ InSync => NothingDone

\* A run over a target that was in sync, with a timed and an all-day event
\* in reach, has returned nil without a call.
C17_Witness ==
    /\ Clean /\ UniqueIdentities(listing)
    /\ InSync /\ desired /= EmptyMap
    /\ calls = {}

\* A target event that differs in its location only is left to be updated.
C17_WitnessUnequal ==
    /\ DiffDone /\ UniqueIdentities(listing)
    /\ \E t \in Range(listing) :
          /\ t.ICalUID \in DOMAIN updates
          /\ equalEvent([updates[t.ICalUID] EXCEPT !.Location = "moved"], t)

----------------------------------------------------------------------------
(* C18 *)

\* Two occurrences of one identity that pass the filter, o listed before q,
\* and no other.
Layered(o, q) ==
    /\ o[1] < q[1]
    /\ shouldSync(o[2]) /\ shouldSync(q[2])
    /\ icalUID(o[2]) = icalUID(q[2])
    /\ \A r \in Occurrences :
          (shouldSync(r[2]) /\ icalUID(r[2]) = icalUID(o[2])) => r \in {o, q}

\* C18: the desired event of an identity listed in two sources has the
\* identity, start, end, description, location and transparency of the
\* first occurrence (description and location empty under a mask), and as
\* its title the later source's prefix before the first result's title; the
\* later event's own title and details and the mask are not applied again.
C18_Layering ==
    (DiffDone /\ Fresh) =>
        \A o, q \in Occurrences :
            (Layered(o, q) /\ icalUID(o[2]) \in DOMAIN desired) =>
                LET d == desired[icalUID(o[2])]
                    first == Config.SourceCalendars[o[1]].Prefix
                    later == Config.SourceCalendars[q[1]].Prefix
                IN  /\ d.ICalUID = icalUID(o[2])
                    /\ d.Start = o[2].Start /\ d.End = o[2].End
                    /\ d.Transparency = o[2].Transparency
                    /\ IF Config.Mask = ""
                       THEN /\ d.Summary = later \o first \o o[2].Summary
                            /\ d.Description = o[2].Description
                            /\ d.Location = o[2].Location
                       ELSE /\ d.Summary = later \o first \o Config.Mask
                            /\ d.Description = "" /\ d.Location = ""

\* Two occurrences that differ in title, details, end and transparency were
\* merged, the one with a description first, and the merged event imported.
C18_Witness ==
    /\ DiffDone /\ Fresh
    /\ Config.Mask = ""
    /\ \E o, q \in Occurrences :
          /\ Layered(o, q)
          /\ o[2].Summary /= q[2].Summary /\ o[2].Description /= q[2].Description
          /\ o[2].End /= q[2].End /\ o[2].Transparency /= q[2].Transparency
          /\ icalUID(o[2]) \in DOMAIN desired
          /\ desired[icalUID(o[2])].Summary = "[H] [W] Lunch"
          /\ Op("import", icalUID(o[2])) \in calls

\* The same under a mask, the second source calendar listed first.
C18_WitnessMask ==
    /\ DiffDone /\ Fresh
    /\ Config.Mask /= ""
    /\ \E o, q \in Occurrences :
          /\ Layered(o, q)
          /\ icalUID(o[2]) \in DOMAIN desired
          /\ desired[icalUID(o[2])].Summary = "[W] [H] busy"
          /\ desired[icalUID(o[2])].End = Jan2

----------------------------------------------------------------------------
(* C19 *)

\* The goroutines that hold the mutex.
Appending == {w \in DOMAIN workers : workers[w] = "append"}

\* C19: Sync returns nil or the joined error only when every goroutine it
\* started has returned and released its token, all tokens being acquired;
\* the mutex is held by exactly the one goroutine that is about to append;
\* errs is changed only by the holder of the mutex, by appending its error;
\* errs is read for the result only when no goroutine is left; and the
\* result holds the error of every failed operation.
C19_CompletionBarrier ==
    /\ [](Returned =>
            /\ workers = EmptyMap /\ finished = calls /\ ~mu
            /\ sem = UpdateConcurrency
            /\ Len(errs) = Cardinality(failed)
            /\ \A w \in failed : OpErr(w) \in Range(errs)
            /\ result = IF failed = {} THEN NilErr ELSE Joined(errs))
    /\ [](Cardinality(Appending) = IF mu THEN 1 ELSE 0)
    /\ [][(errs' /= errs /\ run' = run) =>
             /\ mu /\ ~mu'
             /\ \E w \in Appending : errs' = Append(errs, OpErr(w))]_vars
    /\ [][(result = NoResult /\ result'.kind \in {"nil", "joined"}) =>
             (workers = EmptyMap /\ ~mu /\ ~cancelled)]_vars

\* Under a limit of two, two operations failed and a third succeeded, and
\* Sync returned both errors.
C19_Witness ==
    /\ Returned
    /\ UpdateConcurrency = 2
    /\ Cardinality(failed) = 2 /\ Len(errs) = 2
    /\ Cardinality(calls) = 3

\* A goroutine holds the mutex while another one's call is still running and
\* an error is already collected.
C19_WitnessContended ==
    /\ mu /\ errs /= <<>>
    /\ \E w \in DOMAIN workers : workers[w] = "call"
    /\ pc = "wait"

----------------------------------------------------------------------------
(* Sync under every limit main accepts, its context never cancelled. *)

\* The limits tried of those main hands over: strconv.ParseInt accepts any
\* 64-bit integer and main checks no range (part_001:37-43).
AcceptedLimits == {-1, 0} \cup Limits

LiveInit == UpdateConcurrency \in AcceptedLimits /\ Start

\* One run of Sync under context.Background(): every listing and every call
\* returns, with or without an error.
LiveNext ==
    \/ ListSource
    \/ ListSourceFail
    \/ ListExclude
    \/ ListExcludeFail
    \/ ListTarget
    \/ ListTargetFail
    \/ StartImport
    \/ StartDelete
    \/ WaitAll
    \/ \E w \in DOMAIN workers : ImportOK(w)
    \/ \E w \in DOMAIN workers : DeleteOK(w)
    \/ \E w \in DOMAIN workers : CallFail(w)
    \/ \E w \in DOMAIN workers : AppendErr(w)
    \/ \E w \in DOMAIN workers : Release(w)

\* The goroutines are scheduled and every remote call returns.
LiveSpec == LiveInit /\ [][LiveNext]_vars /\ WF_vars(LiveNext)

----------------------------------------------------------------------------
(* C20 *)

\* C20: under every limit main accepts, with every listing and every call
\* returning and the context never cancelled, Sync returns.
C20_Termination == <>(pc = "done")

\* C20, for the limits of at least one: Sync returns.
C20_TerminationPositive == (UpdateConcurrency >= 1) => <>(pc = "done")

\* The dispatcher waits for a token that no goroutine holds.
C20_Stuck ==
    /\ pc \in {"updates", "deletes"}
    /\ workers = EmptyMap /\ sem = 0
    /\ ~cancelled /\ ~CanAcquire(1)

============================================================================
